---- MODULE Spec2Model ----
(***************************************************************************)
(* A model of rope-modeling/analysis/analysis_rope_state.py: the           *)
(* RopeStateAnalyzer facade over a directory of simulation CSV files.      *)
(*                                                                         *)
(* Three specifications share the operators that model the methods:        *)
(*   Spec      one top-level call (main, analyze_all_simulations,          *)
(*             plot_all_trajectories_combined, create_comprehensive_       *)
(*             analysis) executed stage by stage while the directory may   *)
(*             lose a file underneath the analyzer;                        *)
(*   SpecPlot  a sequence of direct calls of the plotting methods, each    *)
(*             run to completion, over the process-global pyplot state;    *)
(*   SpecData  the table-level functions (load, extract, rope length,      *)
(*             animation frames) on concrete CSV tables.                   *)
(***************************************************************************)
EXTENDS Integers, Sequences, FiniteSets, TLC

\* ------------------------------------------------------------------ bounds
MaxIdx == 2
MaxSteps == 1
MaxN == 3
MaxRemovals == 1
MaxCalls == 2

\* ------------------------------------------------------------- file system
\* A file name is <<stem, ending>>; the glob pattern "*simulation.csv" looks
\* at the ending only.
SimA == <<"a_", "simulation.csv">>
SimB == <<"b_", "simulation.csv">>
Other == <<"simulation_notes", ".csv">>
Names == {SimA, SimB, Other}

csv_directory == "csv"
Join(directory, name) == <<directory, name>>
Basename(path) == path[2]

\* What the analyzer reads of a file: whether it exists, the particle indices
\* whose Particle<i>_X, _Y, _Z columns it carries, and its number of data rows.
Absent == [present |-> FALSE, cols |-> {}, steps |-> 0]
ColSets == {0..(m - 1) : m \in 0..(MaxIdx + 1)} \cup {{0, MaxIdx}, {MaxIdx}}
FileShapes == {[present |-> TRUE, cols |-> c, steps |-> k] : c \in ColSets, k \in 0..MaxSteps}
Axes == {"X", "Y", "Z"}

NoExc == "none"
SetMin(S) == CHOOSE x \in S : \A y \in S : x <= y

VARIABLES
    fs,                 \* the directory: Names -> file
    simulation_files,   \* self.simulation_files: paths captured at construction
    n_particles,        \* self.n_particles
    figs,               \* pyplot's open figures in creation order; the last is current
    saves,              \* every savefig / anim.save so far: [name, plot, curves]
    parsed,             \* number of pd.read_csv calls
    log,                \* the "Error ..." lines printed by the two batch loops
    trace,              \* the stage executions so far: [stage, file, exc]
    plotno,             \* number of plotting operations started
    pc, op, file_idx, stage, cur,
    raised,             \* the exception that reached the top-level caller
    removals, calls,
    gen,                \* what the simulator wrote: particles, steps, motion, layout
    table,              \* the CSV file as a table: header and data rows
    loaded,             \* what load_simulation_data returned
    extracted,          \* what extract_particle_positions returned
    lengths,            \* the rope-length series of _analyze_rope_properties
    artists,            \* the scatter and line of the 3D figure
    anim_calls,         \* the frames the animation callback was run with
    video               \* the frames grabbed into the video

vars == <<fs, simulation_files, n_particles, figs, saves, parsed, log, trace, plotno,
          pc, op, file_idx, stage, cur, raised, removals, calls,
          gen, table, loaded, extracted, lengths, artists, anim_calls, video>>
dataVars == <<gen, table, loaded, extracted, lengths, artists, anim_calls, video>>
pipeVars == <<fs, simulation_files, figs, saves, parsed, log, trace, plotno,
              file_idx, stage, cur, removals, calls>>

\* --------------------------------------------------------------- discovery
Orderings(S) == {s \in [1..Cardinality(S) -> S] : \A i, j \in 1..Cardinality(S) : s[i] = s[j] => i = j}

\* glob.glob(os.path.join(csv_directory, "*simulation.csv")): the matching
\* paths, in an order the file system chooses.
find_simulation_files(d) ==
    {[i \in DOMAIN s |-> Join(csv_directory, s[i])] :
        s \in Orderings({name \in Names : d[name].present /\ name[2] = "simulation.csv"})}

\* ------------------------------------------------------------ pyplot state
State == [figs |-> figs, saves |-> saves, parsed |-> parsed, log |-> log, trace |-> trace,
          plotno |-> plotno]

EmptyFigure == [curves |-> {}]
\* Entry of one of the four plotting methods: its curves and saves carry its number.
Begin(st) == [st EXCEPT !.plotno = @ + 1]
\* plt.subplots / plt.figure: a new figure is opened and becomes current.
NewFigure(st) == [st EXCEPT !.figs = Append(@, EmptyFigure)]
\* axes.plot on the current figure.
Draw(st, cs) == [st EXCEPT !.figs[Len(st.figs)].curves = @ \cup cs]
\* plt.savefig / anim.save: the current figure's content goes to the file.
SaveFig(st, name) ==
    [st EXCEPT !.saves = Append(@, [name |-> name, plot |-> st.plotno,
                                    curves |-> st.figs[Len(st.figs)].curves])]
\* plt.clf(): the current figure is emptied; it stays open.
Clf(st) == [st EXCEPT !.figs[Len(st.figs)].curves = {}]
Ran(st, stg, filename, exc) ==
    [st EXCEPT !.trace = Append(@, [stage |-> stg, file |-> filename, exc |-> exc])]
Outcome(st, stg, filename, exc) == [st |-> Ran(st, stg, filename, exc), exc |-> exc]

\* ------------------------------------------------------------------ loader
\* Mutant: the loader without its os.path.exists test.
load_simulation_data_unchecked(d, filename) ==
    [exc |-> NoExc, data |-> d[filename],
     num_particles |-> (3 * Cardinality(d[filename].cols)) \div 3,
     num_steps |-> d[filename].steps]

load_simulation_data(d, filename) ==
    IF ~d[filename].present
    THEN [exc |-> "FileNotFoundError", data |-> Absent, num_particles |-> 0, num_steps |-> 0]
    ELSE [exc |-> NoExc, data |-> d[filename],
          num_particles |-> (3 * Cardinality(d[filename].cols)) \div 3,
          num_steps |-> d[filename].steps]

\* data[f'Particle{idx}_X'] and its Y, Z: a KeyError unless the columns exist.
HasColumns(data, particle_idx) == particle_idx \in data.cols

TrajectoryCurves(id, filename, particles, upto) ==
    {[plot |-> id, file |-> filename, kind |-> "trajectory", role |-> i,
      particle |-> particles[i], axis |-> a] : i \in 1..upto, a \in Axes}

\* Mutant: the particles chosen from the file's own count, as the combined plot does.
plot_trajectories_file_count(st0, d, n, filename) ==
    LET st == Begin(st0)
        ld == load_simulation_data(d, filename) IN
    IF ld.exc # NoExc THEN Outcome(st, "trajectories", filename, ld.exc)
    ELSE
    LET particles == <<0, ld.num_particles \div 2, ld.num_particles - 1>>
        bad == {i \in 1..3 : ~HasColumns(ld.data, particles[i])}
        drawn == IF bad = {} THEN 3 ELSE SetMin(bad) - 1
        st1 == NewFigure([st EXCEPT !.parsed = @ + 1])
        st2 == Draw(st1, TrajectoryCurves(st.plotno, filename, particles, drawn))
    IN  IF bad # {} THEN Outcome(st2, "trajectories", filename, "KeyError")
        ELSE Outcome(Clf(SaveFig(st2, <<filename, "_trajectories.png">>)),
                     "trajectories", filename, NoExc)

\* ---------------------------------------------------------- plot_trajectories
plot_trajectories(st0, d, n, filename) ==
    LET st == Begin(st0)
        ld == load_simulation_data(d, filename) IN
    IF ld.exc # NoExc THEN Outcome(st, "trajectories", filename, ld.exc)
    ELSE
    LET particles == <<0, n \div 2, n - 1>>
        bad == {i \in 1..3 : ~HasColumns(ld.data, particles[i])}
        drawn == IF bad = {} THEN 3 ELSE SetMin(bad) - 1
        st1 == NewFigure([st EXCEPT !.parsed = @ + 1])
        st2 == Draw(st1, TrajectoryCurves(st.plotno, filename, particles, drawn))
    IN  IF bad # {} THEN Outcome(st2, "trajectories", filename, "KeyError")
        ELSE Outcome(Clf(SaveFig(st2, <<filename, "_trajectories.png">>)),
                     "trajectories", filename, NoExc)

\* ----------------------------------------------- create_3d_rope_visualization
create_3d_rope_visualization(st0, d, n, filename) ==
    LET st == Begin(st0)
        ld == load_simulation_data(d, filename) IN
    IF ld.exc # NoExc THEN Outcome(st, "animation", filename, ld.exc)
    ELSE
    LET st1 == NewFigure([st EXCEPT !.parsed = @ + 1])
        bad == {i \in 0..(n - 1) : ~HasColumns(ld.data, i)}
        rope == {[plot |-> st.plotno, file |-> filename, kind |-> "rope", role |-> 0,
                  particle |-> n, axis |-> "XYZ"]}
    IN  IF bad # {} THEN Outcome(st1, "animation", filename, "KeyError")
        \* min(all_x) of an empty list
        ELSE IF n = 0 \/ ld.num_steps = 0
        THEN Outcome(st1, "animation", filename, "ValueError")
        ELSE Outcome(Clf(SaveFig(Draw(st1, rope), <<filename, "_3d_visualization.mp4">>)),
                     "animation", filename, NoExc)

\* --------------------------------------------------- _analyze_rope_properties
analyze_rope_properties(st0, d, n, filename) ==
    LET st == Begin(st0)
        ld == load_simulation_data(d, filename) IN
    IF ld.exc # NoExc THEN Outcome(st, "length", filename, ld.exc)
    ELSE
    LET st1 == [st EXCEPT !.parsed = @ + 1]
        bad == {i \in 0..(n - 2) : ~HasColumns(ld.data, i) \/ ~HasColumns(ld.data, i + 1)}
        curve == {[plot |-> st.plotno, file |-> filename, kind |-> k, role |-> 0,
                   particle |-> n, axis |-> "length"] : k \in {"length", "mean"}}
        st2 == Clf(SaveFig(Draw(NewFigure(st1), curve), <<filename, "_length_analysis.png">>))
    IN  IF ld.num_steps > 0 /\ bad # {} THEN Outcome(st1, "length", filename, "KeyError")
        \* the image is written before min(lengths) meets the empty list
        ELSE IF ld.num_steps = 0 THEN Outcome(st2, "length", filename, "ValueError")
        ELSE Outcome(st2, "length", filename, NoExc)

\* --------------------------------------------- plot_all_trajectories_combined
AllFiles == <<"*", "simulation.csv">>
CombinedPng == <<<<"combined", "">>, "_trajectories.png">>
\* `except Exception` catches each of the three.
IsException(exc) == exc \in {"FileNotFoundError", "KeyError", "ValueError"}
Logged(st, loop, path, exc) ==
    [st EXCEPT !.log = Append(@, [loop |-> loop, file |-> path, exc |-> exc])]

CombinedBegin(st0) == NewFigure(Begin(st0))

\* The body of the for loop for one discovered path, with its try/except.
combined_file(st, d, path) ==
    LET filename == Basename(path)
        ld == load_simulation_data(d, filename) IN
    IF ld.exc # NoExc THEN Logged(st, "processing", path, ld.exc)
    ELSE
    LET particles == <<0, ld.num_particles \div 2, ld.num_particles - 1>>
        bad == {i \in 1..3 : ~HasColumns(ld.data, particles[i])}
        drawn == IF bad = {} THEN 3 ELSE SetMin(bad) - 1
        st1 == Draw([st EXCEPT !.parsed = @ + 1],
                    TrajectoryCurves(st.plotno, filename, particles, drawn))
    IN  IF bad # {} THEN Logged(st1, "processing", path, "KeyError") ELSE st1

CombinedEnd(st) == Ran(Clf(SaveFig(st, CombinedPng)), "combined", AllFiles, NoExc)

RECURSIVE CombinedLoop(_, _, _, _)
CombinedLoop(st, d, files, i) ==
    IF i > Len(files) THEN st
    ELSE CombinedLoop(combined_file(st, d, files[i]), d, files, i + 1)

plot_all_trajectories_combined(st, d, files) ==
    IF files = <<>> THEN [st |-> st, exc |-> NoExc]
    ELSE [st |-> CombinedEnd(CombinedLoop(CombinedBegin(st), d, files, 1)), exc |-> NoExc]

\* ------------------------------------------------ create_comprehensive_analysis
create_comprehensive_analysis(st, d, n, filename) ==
    LET r1 == plot_trajectories(st, d, n, filename) IN
    IF r1.exc # NoExc THEN r1
    ELSE LET r2 == create_3d_rope_visualization(r1.st, d, n, filename) IN
         IF r2.exc # NoExc THEN r2
         ELSE analyze_rope_properties(r2.st, d, n, filename)

\* ---------------------------------------------------------------- the calls
NoGen == [n |-> 0, k |-> 0, a |-> 0, b |-> 0, layout |-> "none", extras |-> "none"]
NoTable == [columns |-> <<>>, rows |-> <<>>]
NoLoad == [num_particles |-> 0, num_steps |-> 0]
NoXYZ == [x |-> <<>>, y |-> <<>>, z |-> <<>>]
NoArtists == [step |-> 0, scatter |-> <<>>, line |-> <<>>]
NoData ==
    /\ gen = NoGen /\ table = NoTable /\ loaded = NoLoad /\ extracted = NoXYZ
    /\ lengths = <<>> /\ artists = NoArtists /\ anim_calls = <<>> /\ video = <<>>

Install(st) ==
    /\ figs' = st.figs
    /\ saves' = st.saves
    /\ parsed' = st.parsed
    /\ log' = st.log
    /\ trace' = st.trace
    /\ plotno' = st.plotno

InBatch == op.name \in {"main", "analyze_all_simulations"}

FileChoices ==
    {d \in [Names -> FileShapes \cup {Absent}] :
        d[Other] \in {Absent, [present |-> TRUE, cols |-> {0}, steps |-> 1]}}

Init ==
    /\ fs \in FileChoices
    /\ simulation_files \in find_simulation_files(fs)
    /\ n_particles \in 0..MaxN
    /\ figs = <<>> /\ saves = <<>> /\ parsed = 0 /\ log = <<>> /\ trace = <<>> /\ plotno = 0
    /\ pc = "idle" /\ op = [name |-> "none", arg |-> AllFiles]
    /\ file_idx = 0 /\ stage = "none" /\ cur = AllFiles
    /\ raised = NoExc /\ removals = 0 /\ calls = 0
    /\ NoData

\* Mutant: no test of an empty simulation_files.
EnterAnalyzeAllUnchecked(name) ==
    /\ pc = "idle"
    /\ op' = [name |-> name, arg |-> AllFiles]
    /\ pc' = "combined_loop" /\ file_idx' = 1 /\ Install(CombinedBegin(State))
    /\ UNCHANGED dataVars
    /\ UNCHANGED <<fs, simulation_files, n_particles, stage, cur, raised, removals, calls>>

\* analyze_all_simulations from its first statement; main() reaches the same
\* statements after its own emptiness check.
EnterAnalyzeAll(name) ==
    /\ pc = "idle"
    /\ op' = [name |-> name, arg |-> AllFiles]
    /\ IF simulation_files = <<>>
       THEN pc' = "done" /\ file_idx' = file_idx /\ Install(State)
       ELSE pc' = "combined_loop" /\ file_idx' = 1 /\ Install(CombinedBegin(State))
    /\ UNCHANGED dataVars
    /\ UNCHANGED <<fs, simulation_files, n_particles, stage, cur, raised, removals, calls>>

CallMain == EnterAnalyzeAll("main")

CallAnalyzeAll == EnterAnalyzeAll("analyze_all_simulations")

CallCombined == EnterAnalyzeAll("plot_all_trajectories_combined")

CombinedFile ==
    /\ pc = "combined_loop" /\ file_idx <= Len(simulation_files)
    /\ Install(combined_file(State, fs, simulation_files[file_idx]))
    /\ file_idx' = file_idx + 1
    /\ UNCHANGED dataVars
    /\ UNCHANGED <<fs, simulation_files, n_particles, pc, op, stage, cur, raised, removals, calls>>

CombinedSave ==
    /\ pc = "combined_loop" /\ file_idx > Len(simulation_files)
    /\ Install(CombinedEnd(State))
    /\ IF InBatch THEN pc' = "batch_loop" /\ file_idx' = 1
                  ELSE pc' = "done" /\ file_idx' = file_idx
    /\ UNCHANGED dataVars
    /\ UNCHANGED <<fs, simulation_files, n_particles, op, stage, cur, raised, removals, calls>>

BatchNext ==
    /\ pc = "batch_loop" /\ file_idx <= Len(simulation_files)
    /\ cur' = Basename(simulation_files[file_idx])
    /\ pc' = "stage" /\ stage' = "trajectories"
    /\ UNCHANGED dataVars
    /\ UNCHANGED <<fs, simulation_files, n_particles, figs, saves, parsed, log, trace, plotno,
                   op, file_idx, raised, removals, calls>>

BatchEnd ==
    /\ pc = "batch_loop" /\ file_idx > Len(simulation_files)
    /\ pc' = "done"
    /\ UNCHANGED dataVars
    /\ UNCHANGED <<fs, simulation_files, n_particles, figs, saves, parsed, log, trace, plotno,
                   op, file_idx, stage, cur, raised, removals, calls>>

CallComprehensive(f) ==
    /\ pc = "idle"
    /\ op' = [name |-> "create_comprehensive_analysis", arg |-> f]
    /\ cur' = f /\ pc' = "stage" /\ stage' = "trajectories"
    /\ UNCHANGED dataVars
    /\ UNCHANGED <<fs, simulation_files, n_particles, figs, saves, parsed, log, trace, plotno,
                   file_idx, raised, removals, calls>>

\* Mutant: the handler of the batch loop ends the loop (break for continue).
AfterStageBreak(r, next) ==
    IF r.exc = NoExc
    THEN /\ Install(r.st)
         /\ IF next # "return" THEN pc' = pc /\ stage' = next /\ file_idx' = file_idx
            ELSE /\ stage' = "none"
                 /\ IF InBatch THEN pc' = "batch_loop" /\ file_idx' = file_idx + 1
                               ELSE pc' = "done" /\ file_idx' = file_idx
         /\ raised' = raised
    ELSE IF InBatch /\ IsException(r.exc)
    THEN /\ Install(Logged(r.st, "analyzing", simulation_files[file_idx], r.exc))
         /\ pc' = "done" /\ file_idx' = file_idx /\ stage' = "none"
         /\ raised' = raised
    ELSE /\ Install(r.st)
         /\ pc' = "done" /\ stage' = "none" /\ file_idx' = file_idx
         /\ raised' = r.exc

\* Mutant: each stage has its own handler, so a failed stage is logged and the
\* next stage of the same file still runs.
AfterStagePerStageHandler(r, next) ==
    IF r.exc = NoExc \/ (InBatch /\ IsException(r.exc))
    THEN /\ Install(IF r.exc = NoExc THEN r.st
                    ELSE Logged(r.st, "analyzing", simulation_files[file_idx], r.exc))
         /\ IF next # "return" THEN pc' = pc /\ stage' = next /\ file_idx' = file_idx
            ELSE /\ stage' = "none"
                 /\ IF InBatch THEN pc' = "batch_loop" /\ file_idx' = file_idx + 1
                               ELSE pc' = "done" /\ file_idx' = file_idx
         /\ raised' = raised
    ELSE /\ Install(r.st)
         /\ pc' = "done" /\ stage' = "none" /\ file_idx' = file_idx
         /\ raised' = r.exc

\* What follows a stage of create_comprehensive_analysis: the next stage, the
\* return, or the exception leaving it, caught by the batch loop if there is one.
AfterStage(r, next) ==
    IF r.exc = NoExc
    THEN /\ Install(r.st)
         /\ IF next # "return" THEN pc' = pc /\ stage' = next /\ file_idx' = file_idx
            ELSE /\ stage' = "none"
                 /\ IF InBatch THEN pc' = "batch_loop" /\ file_idx' = file_idx + 1
                               ELSE pc' = "done" /\ file_idx' = file_idx
         /\ raised' = raised
    ELSE IF InBatch /\ IsException(r.exc)
    THEN /\ Install(Logged(r.st, "analyzing", simulation_files[file_idx], r.exc))
         /\ pc' = "batch_loop" /\ file_idx' = file_idx + 1 /\ stage' = "none"
         /\ raised' = raised
    ELSE /\ Install(r.st)
         /\ pc' = "done" /\ stage' = "none" /\ file_idx' = file_idx
         /\ raised' = r.exc

StageTrajectories ==
    /\ pc = "stage" /\ stage = "trajectories"
    /\ AfterStage(plot_trajectories(State, fs, n_particles, cur), "animation")
    /\ UNCHANGED dataVars
    /\ UNCHANGED <<fs, simulation_files, n_particles, op, cur, removals, calls>>

StageAnimation ==
    /\ pc = "stage" /\ stage = "animation"
    /\ AfterStage(create_3d_rope_visualization(State, fs, n_particles, cur), "length")
    /\ UNCHANGED dataVars
    /\ UNCHANGED <<fs, simulation_files, n_particles, op, cur, removals, calls>>

StageLength ==
    /\ pc = "stage" /\ stage = "length"
    /\ AfterStage(analyze_rope_properties(State, fs, n_particles, cur), "return")
    /\ UNCHANGED dataVars
    /\ UNCHANGED <<fs, simulation_files, n_particles, op, cur, removals, calls>>

\* The list of files is captured once: another process may delete a file later.
RemoveFile(f) ==
    /\ pc # "done" /\ removals < MaxRemovals /\ fs[f].present
    /\ fs' = [fs EXCEPT ![f] = Absent]
    /\ removals' = removals + 1
    /\ UNCHANGED dataVars
    /\ UNCHANGED <<simulation_files, n_particles, figs, saves, parsed, log, trace, plotno,
                   pc, op, file_idx, stage, cur, raised, calls>>

Next ==
    \/ CallMain
    \/ CallAnalyzeAll
    \/ CallCombined
    \/ \E f \in Names : CallComprehensive(f)
    \/ CombinedFile
    \/ CombinedSave
    \/ BatchNext
    \/ BatchEnd
    \/ StageTrajectories
    \/ StageAnimation
    \/ StageLength
    \/ \E f \in Names : RemoveFile(f)

Spec == Init /\ [][Next]_vars

\* ------------------------------------------- direct calls, each run to completion
PlotChoices ==
    {d \in [Names -> FileShapes \cup {Absent}] :
        /\ d[SimB] \in {Absent, [present |-> TRUE, cols |-> 0..MaxIdx, steps |-> MaxSteps]}
        /\ d[Other] = Absent}

InitPlot ==
    /\ fs \in PlotChoices
    /\ simulation_files \in find_simulation_files(fs)
    /\ n_particles \in 0..MaxN
    /\ figs = <<>> /\ saves = <<>> /\ parsed = 0 /\ log = <<>> /\ trace = <<>> /\ plotno = 0
    /\ pc = "idle" /\ op = [name |-> "none", arg |-> AllFiles]
    /\ file_idx = 0 /\ stage = "none" /\ cur = AllFiles
    /\ raised = NoExc /\ removals = 0 /\ calls = 0
    /\ NoData

Direct(name, arg, r) ==
    /\ pc = "idle" /\ calls < MaxCalls
    /\ op' = [name |-> name, arg |-> arg]
    /\ Install(r.st)
    /\ raised' = r.exc
    /\ calls' = calls + 1
    /\ UNCHANGED dataVars
    /\ UNCHANGED <<fs, simulation_files, n_particles, pc, file_idx, stage, cur, removals>>

DoPlotTrajectories(f) ==
    Direct("plot_trajectories", f, plot_trajectories(State, fs, n_particles, f))

DoCreate3d(f) ==
    Direct("create_3d_rope_visualization", f,
           create_3d_rope_visualization(State, fs, n_particles, f))

DoAnalyzeRope(f) ==
    Direct("_analyze_rope_properties", f, analyze_rope_properties(State, fs, n_particles, f))

DoComprehensive(f) ==
    Direct("create_comprehensive_analysis", f,
           create_comprehensive_analysis(State, fs, n_particles, f))

DoCombined ==
    Direct("plot_all_trajectories_combined", AllFiles,
           plot_all_trajectories_combined(State, fs, simulation_files))

NextPlot ==
    \/ \E f \in {SimA, SimB} : DoPlotTrajectories(f)
    \/ \E f \in {SimA, SimB} : DoCreate3d(f)
    \/ \E f \in {SimA, SimB} : DoAnalyzeRope(f)
    \/ \E f \in {SimA, SimB} : DoComprehensive(f)
    \/ DoCombined

SpecPlot == InitPlot /\ [][NextPlot]_vars

\* ================================================================ table level
MaxParticles == 3
MaxRows == 2
Scale == 100

\* The positions the simulator wrote: particle i (from 0) at step s (from 1)
\* walks over four points, a places per particle and b places per step.
Points == <<<<0, 0, 0>>, <<1, 0, 0>>, <<1, 1, 0>>, <<1, 1, 2>>>>
Pos(g, s, i) == Points[((g.a * i + g.b * (s - 1)) % Len(Points)) + 1]

AxisSeq == <<"X", "Y", "Z">>
AxisNo(axis) == CHOOSE j \in 1..3 : AxisSeq[j] = axis
\* f'Particle{particle_idx}_X'
ColumnName(particle_idx, axis) == [prefix |-> "Particle", idx |-> particle_idx, axis |-> axis]
TimeColumn == [prefix |-> "Time", idx |-> 0, axis |-> ""]
PropertyColumns == [j \in 1..3 |-> [prefix |-> "Particle", idx |-> 0 - j, axis |-> "Mass"]]

ParticleColumns(g) ==
    [j \in 1..(3 * g.n) |->
        IF g.layout = "by_particle"
        THEN ColumnName((j - 1) \div 3, AxisSeq[((j - 1) % 3) + 1])
        ELSE ColumnName((j - 1) % g.n, AxisSeq[((j - 1) \div g.n) + 1])]
Header(g) ==
    CASE g.extras = "time" -> <<TimeColumn>> \o ParticleColumns(g)
      [] g.extras = "properties" -> ParticleColumns(g) \o PropertyColumns
      [] OTHER -> ParticleColumns(g)
Cell(g, col, s) ==
    IF col.prefix = "Particle" /\ col.axis \in Axes THEN Pos(g, s, col.idx)[AxisNo(col.axis)]
    ELSE s - 1
\* The file the simulator leaves behind, as pd.read_csv hands it over.
CsvOf(g) ==
    [columns |-> Header(g),
     rows |-> [s \in 1..g.k |-> [j \in 1..Len(Header(g)) |-> Cell(g, Header(g)[j], s)]]]

\* Mutant: every Particle-prefixed column counted as a particle.
load_simulation_data_table_columns(data) ==
    [num_steps |-> Len(data.rows),
     num_particles |->
        Cardinality({j \in DOMAIN data.columns : data.columns[j].prefix = "Particle"})]

\* load_simulation_data on an existing file.
load_simulation_data_table(data) ==
    [num_steps |-> Len(data.rows),
     num_particles |->
        Cardinality({j \in DOMAIN data.columns : data.columns[j].prefix = "Particle"}) \div 3]

HasColumn(data, name) == \E j \in DOMAIN data.columns : data.columns[j] = name
\* data[name].values
ColumnValues(data, name) ==
    LET j == CHOOSE c \in DOMAIN data.columns : data.columns[c] = name
    IN  [s \in 1..Len(data.rows) |-> data.rows[s][j]]

extract_particle_positions(data, particle_idx) ==
    IF \E a \in Axes : ~HasColumn(data, ColumnName(particle_idx, a))
    THEN [exc |-> "KeyError", xyz |-> NoXYZ]
    ELSE [exc |-> NoExc,
          xyz |-> [x |-> ColumnValues(data, ColumnName(particle_idx, "X")),
                   y |-> ColumnValues(data, ColumnName(particle_idx, "Y")),
                   z |-> ColumnValues(data, ColumnName(particle_idx, "Z"))]]

\* np.sqrt, kept to 1/Scale: the largest r with r * r <= v * Scale * Scale.
RECURSIVE Bisect(_, _, _)
Bisect(target, lo, hi) ==
    IF hi - lo <= 1 THEN lo
    ELSE LET mid == (lo + hi) \div 2
         IN  IF mid * mid <= target THEN Bisect(target, mid, hi) ELSE Bisect(target, lo, mid)
Sqrt(v) == Bisect(v * Scale * Scale, 0, v * Scale + 1)

\* Mutant: the distance in the X-Y plane only.
SegmentLengthPlanar(data, i, step) ==
    LET p1 == extract_particle_positions(data, i).xyz
        p2 == extract_particle_positions(data, i + 1).xyz
    IN  Sqrt((p2.x[step + 1] - p1.x[step + 1]) * (p2.x[step + 1] - p1.x[step + 1])
             + (p2.y[step + 1] - p1.y[step + 1]) * (p2.y[step + 1] - p1.y[step + 1]))

\* One segment of the inner loop, at the 0-based step.
SegmentLength(data, i, step) ==
    LET p1 == extract_particle_positions(data, i).xyz
        p2 == extract_particle_positions(data, i + 1).xyz
    IN  Sqrt((p2.x[step + 1] - p1.x[step + 1]) * (p2.x[step + 1] - p1.x[step + 1])
             + (p2.y[step + 1] - p1.y[step + 1]) * (p2.y[step + 1] - p1.y[step + 1])
             + (p2.z[step + 1] - p1.z[step + 1]) * (p2.z[step + 1] - p1.z[step + 1]))

\* for i in range(self.n_particles - 1): total_length += segment_length
RECURSIVE TotalLength(_, _, _, _, _)
TotalLength(data, n, step, i, total_length) ==
    IF i >= n - 1 THEN total_length
    ELSE TotalLength(data, n, step, i + 1, total_length + SegmentLength(data, i, step))

\* for step in range(num_steps): lengths.append(total_length)
RECURSIVE RopeLengths(_, _, _, _, _)
RopeLengths(data, n, num_steps, step, acc) ==
    IF step >= num_steps THEN acc
    ELSE RopeLengths(data, n, num_steps, step + 1, Append(acc, TotalLength(data, n, step, 0, 0)))

\* _analyze_rope_properties up to its last statement: the series, and how it ends.
rope_length_series(data, n) ==
    LET num_steps == load_simulation_data_table(data).num_steps
        missing == {i \in 0..(n - 2) : \/ extract_particle_positions(data, i).exc # NoExc
                                       \/ extract_particle_positions(data, i + 1).exc # NoExc}
    IN  IF num_steps > 0 /\ missing # {} THEN [exc |-> "KeyError", lengths |-> <<>>]
        ELSE [exc |-> IF num_steps = 0 THEN "ValueError" ELSE NoExc,
              lengths |-> RopeLengths(data, n, num_steps, 0, <<>>)]

\* Mutant: the callback reads from the row after the frame's.
animate_next_row(data, n, frame) ==
    LET row == IF frame + 2 <= Len(data.rows) THEN frame + 2 ELSE 1
        positions == [i \in 1..n |->
                        <<extract_particle_positions(data, i - 1).xyz.x[row],
                          extract_particle_positions(data, i - 1).xyz.y[row],
                          extract_particle_positions(data, i - 1).xyz.z[row]>>]
    IN  [step |-> frame, scatter |-> positions, line |-> positions]

\* The animation callback for one frame: the scatter's points and the line
\* through them, particles 0..n-1 in index order, and the step in the title.
animate(data, n, frame) ==
    LET positions == [i \in 1..n |->
                        <<extract_particle_positions(data, i - 1).xyz.x[frame + 1],
                          extract_particle_positions(data, i - 1).xyz.y[frame + 1],
                          extract_particle_positions(data, i - 1).xyz.z[frame + 1]>>]
    IN  [step |-> frame, scatter |-> positions, line |-> positions]

Datasets ==
    [n : 0..MaxParticles, k : 0..MaxRows, a : 0..(Len(Points) - 1), b : 0..(Len(Points) - 1),
     layout : {"by_particle", "by_axis"}, extras : {"none", "time", "properties"}]

InitData ==
    /\ gen \in Datasets
    /\ table = CsvOf(gen)
    /\ n_particles \in 0..MaxN
    /\ loaded = NoLoad /\ extracted = NoXYZ /\ lengths = <<>>
    /\ artists = NoArtists /\ anim_calls = <<>> /\ video = <<>>
    /\ fs = [name \in Names |-> Absent] /\ simulation_files = <<>>
    /\ figs = <<>> /\ saves = <<>> /\ parsed = 0 /\ log = <<>> /\ trace = <<>> /\ plotno = 0
    /\ pc = "idle" /\ op = [name |-> "none", arg |-> AllFiles]
    /\ file_idx = 0 /\ stage = "none" /\ cur = AllFiles
    /\ raised = NoExc /\ removals = 0 /\ calls = 0

CallLoad ==
    /\ pc = "idle"
    /\ op' = [name |-> "load_simulation_data", arg |-> 0]
    /\ loaded' = load_simulation_data_table(table)
    /\ pc' = "done"
    /\ UNCHANGED <<gen, table, n_particles, extracted, lengths, artists, anim_calls, video, raised>>
    /\ UNCHANGED pipeVars

CallExtract(particle_idx) ==
    /\ pc = "idle"
    /\ op' = [name |-> "extract_particle_positions", arg |-> particle_idx]
    /\ extracted' = extract_particle_positions(table, particle_idx).xyz
    /\ raised' = extract_particle_positions(table, particle_idx).exc
    /\ pc' = "done"
    /\ UNCHANGED <<gen, table, n_particles, loaded, lengths, artists, anim_calls, video>>
    /\ UNCHANGED pipeVars

CallAnalyzeRope ==
    /\ pc = "idle"
    /\ op' = [name |-> "_analyze_rope_properties", arg |-> 0]
    /\ loaded' = load_simulation_data_table(table)
    /\ lengths' = rope_length_series(table, n_particles).lengths
    /\ raised' = rope_length_series(table, n_particles).exc
    /\ pc' = "done"
    /\ UNCHANGED <<gen, table, n_particles, extracted, artists, anim_calls, video>>
    /\ UNCHANGED pipeVars

\* create_3d_rope_visualization up to the creation of the animation.
Call3d ==
    /\ pc = "idle"
    /\ op' = [name |-> "create_3d_rope_visualization", arg |-> 0]
    /\ loaded' = load_simulation_data_table(table)
    /\ LET missing == {i \in 0..(n_particles - 1) :
                          extract_particle_positions(table, i).exc # NoExc}
       IN  IF missing # {} THEN raised' = "KeyError" /\ pc' = "done"
           ELSE IF n_particles = 0 \/ Len(table.rows) = 0
           THEN raised' = "ValueError" /\ pc' = "done"
           ELSE raised' = raised /\ pc' = "save_init"
    /\ UNCHANGED <<gen, table, n_particles, extracted, lengths, artists, anim_calls, video>>
    /\ UNCHANGED pipeVars

\* anim.save: with no init_func, the library first draws the first frame of the
\* frame sequence by a call of the callback, before it encodes anything.
SaveInitDraw ==
    /\ pc = "save_init"
    /\ artists' = animate(table, n_particles, 0)
    /\ anim_calls' = Append(anim_calls, 0)
    /\ pc' = "saving"
    /\ UNCHANGED <<gen, table, n_particles, loaded, extracted, lengths, video, raised, op>>
    /\ UNCHANGED pipeVars

\* anim.save: the next frame of range(num_steps) is drawn and grabbed.
SaveFrame ==
    /\ pc = "saving" /\ Len(video) < loaded.num_steps
    /\ artists' = animate(table, n_particles, Len(video))
    /\ anim_calls' = Append(anim_calls, Len(video))
    /\ video' = Append(video, artists')
    /\ UNCHANGED <<gen, table, n_particles, loaded, extracted, lengths, raised, op, pc>>
    /\ UNCHANGED pipeVars

SaveFinish ==
    /\ pc = "saving" /\ Len(video) >= loaded.num_steps
    /\ pc' = "done"
    /\ UNCHANGED <<gen, table, n_particles, loaded, extracted, lengths, artists, anim_calls,
                   video, raised, op>>
    /\ UNCHANGED pipeVars

NextData ==
    \/ CallLoad
    \/ \E i \in 0..MaxParticles : CallExtract(i)
    \/ CallAnalyzeRope
    \/ Call3d
    \/ SaveInitDraw
    \/ SaveFrame
    \/ SaveFinish

SpecData == InitData /\ [][NextData]_vars

\* ================================================================== claims
FileAt(i) == Basename(simulation_files[i])
Outputs(f) == {<<f, "_trajectories.png">>, <<f, "_3d_visualization.mp4">>,
               <<f, "_length_analysis.png">>}
Writes(name) == {j \in DOMAIN saves : saves[j].name = name}
RunsOf(f) == SelectSeq(trace, LAMBDA e : e.file = f)
StagesOf(f) == [j \in 1..Len(RunsOf(f)) |-> RunsOf(f)[j].stage]
FailedRun(f) == \E j \in DOMAIN trace : trace[j].file = f /\ trace[j].exc # NoExc
Reports(loops, path) == {j \in DOMAIN log : log[j].loop \in loops /\ log[j].file = path}
AllStages == <<"trajectories", "animation", "length">>
Rank(stg) == CHOOSE r \in 1..3 : AllStages[r] = stg
PosOf(f) == CHOOSE i \in DOMAIN simulation_files : FileAt(i) = f
BatchDone == pc = "done" /\ InBatch /\ simulation_files # <<>>
CombinedImage == saves[SetMin(Writes(CombinedPng))]

\* Batch isolation, with the error lines of the loops in `loops` counted as reports.
BatchIsolation(loops) ==
    BatchDone =>
        /\ raised = NoExc
        /\ \A i \in DOMAIN simulation_files :
              IF FailedRun(FileAt(i))
              THEN Cardinality(Reports(loops, simulation_files[i])) = 1
              ELSE /\ Reports({"analyzing"}, simulation_files[i]) = {}
                   /\ StagesOf(FileAt(i)) = AllStages
                   /\ \A out \in Outputs(FileAt(i)) : Cardinality(Writes(out)) = 1

\* C1 (amended): batch isolation. When analyze_all_simulations has returned, it
\* has not raised; every discovered file whose analysis raised at some stage has
\* exactly one "Error analyzing" line of the per-file loop carrying its path,
\* and every other file has had its three stages run, each to completion, and
\* each of its three outputs written, wherever it stands relative to the
\* failing files.
C1_BatchIsolation == BatchIsolation({"analyzing"})

\* C1 as stated: a failing file is reported exactly once during
\* analyze_all_simulations, the "Error processing" lines of the combined plot
\* it runs first included.
C1_ReportedExactlyOnce == BatchIsolation({"analyzing", "processing"})

\* C1 witness: a first file that fails at the length stage, then a second file
\* analysed in full.
C1_Witness ==
    /\ BatchDone /\ Len(simulation_files) = 2
    /\ \E j \in DOMAIN trace :
          trace[j] = [stage |-> "length", file |-> FileAt(1), exc |-> "FileNotFoundError"]
    /\ Cardinality(Reports({"analyzing"}, simulation_files[1])) = 1
    /\ ~FailedRun(FileAt(2))
    /\ \A out \in Outputs(FileAt(2)) : Writes(out) # {}

\* C2: ordering. The combined plot is the first thing run and is run once; then
\* the files are handled in discovery order, each file's stages in the order
\* trajectories, animation, length; a stage runs only if the stage before it
\* succeeded, and a file is begun only when the file before it has finished
\* (its length stage ran) or failed.
C2_Ordering ==
    (InBatch /\ trace # <<>>) =>
        /\ trace[1].stage = "combined"
        /\ \A i \in 2..Len(trace) :
              /\ trace[i].stage # "combined"
              /\ \E p \in DOMAIN simulation_files : FileAt(p) = trace[i].file
              /\ IF trace[i].stage = "trajectories"
                 THEN IF i = 2 THEN PosOf(trace[i].file) = 1
                      ELSE /\ trace[i - 1].stage # "combined"
                           /\ PosOf(trace[i].file) = PosOf(trace[i - 1].file) + 1
                           /\ (trace[i - 1].exc # NoExc \/ trace[i - 1].stage = "length")
                 ELSE /\ trace[i - 1].file = trace[i].file
                      /\ trace[i - 1].stage # "combined"
                      /\ Rank(trace[i - 1].stage) = Rank(trace[i].stage) - 1
                      /\ trace[i - 1].exc = NoExc
        /\ (pc = "done" => \A p \in DOMAIN simulation_files : StagesOf(FileAt(p)) # <<>>)

\* C2 witness: the first file fails at its animation stage, the second runs all
\* three stages.
C2_Witness ==
    /\ BatchDone /\ Len(simulation_files) = 2
    /\ Len(trace) = 6
    /\ trace[3].stage = "animation" /\ trace[3].exc # NoExc
    /\ trace[6].stage = "length" /\ trace[6].exc = NoExc

\* C3: empty discovery. A directory without a name ending in "simulation.csv"
\* gives an empty simulation_files, and then analyze_all_simulations,
\* plot_all_trajectories_combined and main return without an exception, without
\* loading a file, without opening a figure and without writing an output.
C3_EmptyDiscovery ==
    /\ (pc = "idle" /\ removals = 0 /\ \A name \in Names : fs[name].present => name[2] # "simulation.csv")
          => simulation_files = <<>>
    /\ (pc = "done" /\ simulation_files = <<>>
           /\ op.name \in {"main", "analyze_all_simulations", "plot_all_trajectories_combined"})
          => (raised = NoExc /\ parsed = 0 /\ saves = <<>> /\ trace = <<>> /\ figs = <<>>)

\* C3 witness: main has returned over a directory that holds only a file whose
\* name does not end in "simulation.csv".
C3_Witness ==
    /\ pc = "done" /\ op.name = "main" /\ simulation_files = <<>>
    /\ fs[Other].present /\ saves = <<>>

\* C4: the combined plot. When plot_all_trajectories_combined has returned over
\* a non-empty list, it has not raised, combined_trajectories.png was written
\* exactly once, a file reported by the loop has no curve in the image, and every
\* other file has exactly three curves per axis: first, middle and last of its
\* own derived particle count.
C4_CombinedSkipsFailing ==
    (pc = "done" /\ op.name = "plot_all_trajectories_combined" /\ simulation_files # <<>>) =>
        /\ raised = NoExc
        /\ Cardinality(Writes(CombinedPng)) = 1
        /\ \A i \in DOMAIN simulation_files :
              LET mine == {c \in CombinedImage.curves : c.file = FileAt(i)}
                  np == load_simulation_data(fs, FileAt(i)).num_particles
              IN  IF Reports({"processing"}, simulation_files[i]) # {}
                  THEN mine = {}
                  ELSE IF fs[FileAt(i)].present
                  THEN mine = TrajectoryCurves(CombinedImage.plot, FileAt(i),
                                               <<0, np \div 2, np - 1>>, 3)
                  ELSE Cardinality(mine) = 9

\* C5: no plot state leaks. Between calls of the plotting methods, every saved
\* image holds only curves drawn by the call that saved it; when the latest
\* plotting method saved, the current figure is empty; and the calls have not
\* accumulated figures: at most one figure is open.
C5_NoPlotStateLeak ==
    /\ \A j \in DOMAIN saves : \A c \in saves[j].curves : c.plot = saves[j].plot
    /\ (saves # <<>> /\ saves[Len(saves)].plot = plotno) => figs[Len(figs)].curves = {}
    /\ Len(figs) <= 1

DirectNames == {"plot_trajectories", "create_3d_rope_visualization",
                "_analyze_rope_properties", "create_comprehensive_analysis"}

\* C6: a direct call of plot_trajectories, create_3d_rope_visualization,
\* _analyze_rope_properties or create_comprehensive_analysis on a name that is
\* not in the directory ends with FileNotFoundError at the caller, and the call
\* parses nothing, opens no figure and writes no output.
C6_MissingFilePropagates ==
    [][(calls' = calls + 1 /\ op'.name \in DirectNames /\ ~fs[op'.arg].present)
          => (raised' = "FileNotFoundError" /\ parsed' = parsed /\ saves' = saves
              /\ figs' = figs)]_vars

\* C6 witness: after a call that wrote its three outputs, a call of
\* create_comprehensive_analysis on a missing file has raised.
C6_Witness ==
    /\ calls = 2 /\ op.name = "create_comprehensive_analysis" /\ ~fs[op.arg].present
    /\ raised = "FileNotFoundError" /\ Len(saves) = 3

Distance(p, q) ==
    Sqrt((q[1] - p[1]) * (q[1] - p[1]) + (q[2] - p[2]) * (q[2] - p[2])
         + (q[3] - p[3]) * (q[3] - p[3]))
RECURSIVE SumOver(_, _, _, _)
SumOver(g, s, S, acc) ==
    IF S = {} THEN acc
    ELSE LET i == CHOOSE x \in S : TRUE
         IN  SumOver(g, s, S \ {i}, acc + Distance(Pos(g, s, i), Pos(g, s, i + 1)))

\* C7: the rope-length series. Unless a column is missing, the series has one
\* value per step, in step order, and the value of a step is the sum over
\* i in 0..n-2 of the distance between particles i and i+1 at that step (0 when
\* n is 1).
C7_RopeLengthSeries ==
    (pc = "done" /\ op.name = "_analyze_rope_properties" /\ raised # "KeyError") =>
        /\ Len(lengths) = gen.k
        /\ \A s \in 1..gen.k : lengths[s] = SumOver(gen, s, 0..(n_particles - 2), 0)

\* C7 witness: particles at (0,0,0), (1,0,0), (1,1,0) in one step give length 2.
C7_Witness ==
    /\ pc = "done" /\ op.name = "_analyze_rope_properties" /\ raised = NoExc
    /\ gen.n = 3 /\ gen.k = 1 /\ n_particles = 3
    /\ \A i \in 0..2 : Pos(gen, 1, i) = Points[i + 1]
    /\ lengths = <<2 * Scale>>

\* C8: on a file with k rows whose Particle-prefixed columns are exactly the
\* X, Y, Z of particles 0..n-1, load_simulation_data reports k steps and n
\* particles, and extract_particle_positions returns, for each particle below
\* n, the three columns of that particle in row order.
C8_LoadAndExtract ==
    gen.extras # "properties" =>
        /\ (pc = "done" /\ op.name = "load_simulation_data")
              => (loaded.num_steps = gen.k /\ loaded.num_particles = gen.n)
        /\ (pc = "done" /\ op.name = "extract_particle_positions" /\ op.arg < gen.n)
              => /\ raised = NoExc
                 /\ extracted = [x |-> [s \in 1..gen.k |-> Pos(gen, s, op.arg)[1]],
                                 y |-> [s \in 1..gen.k |-> Pos(gen, s, op.arg)[2]],
                                 z |-> [s \in 1..gen.k |-> Pos(gen, s, op.arg)[3]]]

\* C8 witness: the last particle's columns of a file laid out axis by axis
\* behind a Time column.
C8_Witness ==
    /\ pc = "done" /\ op.name = "extract_particle_positions"
    /\ gen.layout = "by_axis" /\ gen.extras = "time" /\ gen.n = 3 /\ gen.k = 2
    /\ op.arg = 2 /\ raised = NoExc
    /\ extracted.x # extracted.z /\ extracted.x[1] # extracted.x[2]

FrameOf(g, n, f) ==
    [step |-> f, scatter |-> [i \in 1..n |-> Pos(g, f + 1, i - 1)],
     line |-> [i \in 1..n |-> Pos(g, f + 1, i - 1)]]
Encoding ==
    op.name = "create_3d_rope_visualization" /\ pc \in {"saving", "done"} /\ raised = NoExc

\* C9 (amended): the frames of the video. While the video is encoded, the frames
\* grabbed so far are the frames 0, 1, ... in increasing order, each showing
\* particles 0..n_particles-1 of that step in index order; the callback has run
\* once for the initial draw with frame 0 and then once per grabbed frame, in
\* that order; at the end there is one frame per step.
C9_VideoFrames ==
    Encoding =>
        /\ video = [f \in 1..Len(video) |-> FrameOf(gen, n_particles, f - 1)]
        /\ anim_calls = <<0>> \o [f \in 1..Len(video) |-> f - 1]
        /\ (pc = "done" => Len(video) = gen.k)

\* C9 as stated: when the video is done, the callback has run exactly once per
\* step, for the frames 0..k-1 in increasing order, none repeated.
C9_CallbackOncePerStep ==
    (Encoding /\ pc = "done") =>
        /\ video = [f \in 1..gen.k |-> FrameOf(gen, n_particles, f - 1)]
        /\ anim_calls = [f \in 1..gen.k |-> f - 1]

\* C9 witness: a finished video of two different frames, of two of the file's
\* three particles.
C9_Witness ==
    /\ Encoding /\ pc = "done" /\ Len(video) = 2 /\ gen.n = 3 /\ n_particles = 2
    /\ video[1].line # video[2].line

Conforming(f) ==
    fs[f].present /\ fs[f].steps >= 1 /\ fs[f].cols = 0..(Cardinality(fs[f].cols) - 1)
NFile(f) == Cardinality(fs[f].cols)
AnalysedInFull(f) ==
    /\ ~FailedRun(f) /\ StagesOf(f) = AllStages
    /\ \A out \in Outputs(f) : Writes(out) # {}
StoppedAtTrajectories(f) ==
    /\ RunsOf(f) = <<[stage |-> "trajectories", file |-> f, exc |-> "KeyError"]>>
    /\ \A out \in Outputs(f) : Writes(out) = {}
CombinedPlotted(i) ==
    /\ Reports({"processing"}, simulation_files[i]) = {}
    /\ Cardinality({c \in CombinedImage.curves : c.file = FileAt(i)}) = 9
\* Configured against file-derived count, for the files of a batch and for a
\* direct call; the combined plot is expected to have plotted a file with more
\* than `least` particles.
ConfiguredVsDerived(least) ==
    /\ BatchDone =>
          \A i \in DOMAIN simulation_files :
              Conforming(FileAt(i)) =>
                  /\ (1 <= n_particles /\ n_particles <= NFile(FileAt(i)))
                        => AnalysedInFull(FileAt(i))
                  /\ n_particles > NFile(FileAt(i))
                        => /\ StoppedAtTrajectories(FileAt(i))
                           /\ Cardinality(Reports({"analyzing"}, simulation_files[i])) = 1
                           /\ NFile(FileAt(i)) > least => CombinedPlotted(i)
    /\ (pc = "done" /\ op.name = "create_comprehensive_analysis" /\ Conforming(op.arg)) =>
          /\ (1 <= n_particles /\ n_particles <= NFile(op.arg))
                => (raised = NoExc /\ AnalysedInFull(op.arg))
          /\ n_particles > NFile(op.arg)
                => (raised = "KeyError" /\ StoppedAtTrajectories(op.arg))

\* C10 (amended): configured against file-derived particle count. For a file
\* that is still there, carries exactly the particles 0..n_file-1 and has at
\* least one step: with 1 <= n_particles <= n_file its analysis runs the three
\* stages and writes the three outputs; with n_particles > n_file it stops in the
\* trajectory stage with a KeyError and writes nothing, while the combined plot
\* has drawn the file's nine curves without reporting it, provided n_file >= 1.
C10_ConfiguredVsDerived == ConfiguredVsDerived(0)

\* C10 as stated: with n_particles > n_file the combined plot has plotted the
\* file whatever n_file is, a file without particle columns included.
C10_CombinedAlwaysPlots == ConfiguredVsDerived(0 - 1)

\* C10 witness: one file analysed with more particles than it has, stopped in
\* its trajectory stage but drawn by the combined plot, and one analysed in full
\* with fewer particles than it has.
C10_Witness ==
    /\ BatchDone /\ Len(simulation_files) = 2
    /\ Conforming(FileAt(1)) /\ Conforming(FileAt(2))
    /\ NFile(FileAt(1)) < n_particles /\ n_particles < NFile(FileAt(2))
    /\ StoppedAtTrajectories(FileAt(1)) /\ CombinedPlotted(1)
    /\ AnalysedInFull(FileAt(2))

====
